---- MODULE Spec2Model ----
(***************************************************************************)
(* A model of pelita's GameMaster (game_master.py) and of the message      *)
(* classes of pelita.messaging (messages.py).                              *)
(*                                                                         *)
(* Spec          the GameMaster: registration, play() and play_round()     *)
(* FallbackSpec  the body of the first except clause of play_round, run on *)
(*               every position a bot can have                             *)
(* MsgSpec       the message classes: construction, dict, _load_message,   *)
(*               reply and reply_error                                     *)
(***************************************************************************)
EXTENDS Integers, Sequences, FiniteSets, TLC

VARIABLES
    universe,       \* GameMaster.universe: the live board
    player_teams,   \* GameMaster.player_teams
    viewers,        \* GameMaster.viewers
    pc,             \* where the running play()/play_round() call stands
    call,           \* the running (or last) top-level call and its locals
    trace,          \* what the current play_round invocation did, in order
    rounds,         \* the play_round invocations of the current top-level call
    ncalls,         \* number of top-level play()/play_round() calls made
    handed,         \* the objects last handed to a player or a viewer
    finished,       \* a call of play() has returned
    fb,             \* FallbackSpec: one run of the fallback handler
    msg,            \* MsgSpec: the message under consideration
    msgpc,          \* MsgSpec: "empty", "constructed", "encoded", "loaded",
                    \*          "received" or "decoded"
    wire,           \* MsgSpec: the dict form last produced
    loaded,         \* MsgSpec: what _load_message made of wire
    chan,           \* MsgSpec: the messages put on the reply channel, in order
    mcall           \* MsgSpec: the last reply / reply_error call and its outcome

gameVars == <<universe, player_teams, viewers, pc, call, trace, rounds, ncalls,
              handed, finished>>
msgVars == <<msg, msgpc, wire, loaded, chan, mcall>>
otherVars == <<fb, msg, msgpc, wire, loaded, chan, mcall>>
vars == <<universe, player_teams, viewers, pc, call, trace, rounds, ncalls,
          handed, finished, fb,
          msg, msgpc, wire, loaded, chan, mcall>>

---------------------------------------------------------------------------
(* Bounds *)

NumBots == 2        \* number_bots handed to the constructor
GameTime == 2       \* game_time handed to the constructor
MaxCalls == 2       \* top-level calls of play() / play_round() per behaviour
MazeLen == 5        \* cells of the corridor the board is laid out on

---------------------------------------------------------------------------
(* The board collaborator (pelita.datamodel): a corridor of MazeLen cells  *)
(* with one wall, two teams, bots alternating between the teams, one food  *)
(* item of team 1.                                                         *)

NumTeams == 2
Bots == 0 .. (NumBots - 1)
Cells == 0 .. (MazeLen - 1)
Walls == {MazeLen - 2}
Free == Cells \ Walls
FoodCell == 1

datamodel_stop == "stop"
Moves == {"north", "south", "east", "west", datamodel_stop}

team_index(i) == i % NumTeams

NewPos(pos, m) ==
    CASE m = "east" -> pos + 1
      [] m = "west" -> pos - 1
      [] m = datamodel_stop -> pos
      [] OTHER -> -1

\* universe.get_legal_moves(position): mapping of move -> resulting position;
\* u.nostop holds the cells of the layout where staying is not a legal move
get_legal_moves(u, pos) ==
    [m \in {x \in Moves : /\ NewPos(pos, x) \in Free
                          /\ ~(x = datamodel_stop /\ pos \in u.nostop)}
        |-> NewPos(pos, m)]

BotMoves(i) == [type |-> "BotMoves", who |-> i]
BotEats(i) == [type |-> "BotEats", who |-> i]
TeamWins(t) == [type |-> "TeamWins", who |-> t]
TimeoutEvent(t) == [type |-> "TimeoutEvent", who |-> t]

\* universe.move_bot(bot_index, move): the events, or IllegalMoveException
move_bot(u, i, m) ==
    LET legal == get_legal_moves(u, u.pos[i]) IN
    IF m \notin DOMAIN legal
    THEN [ok |-> FALSE, universe |-> u, events |-> <<>>]
    ELSE LET np == legal[m]
             eats == team_index(i) = 0 /\ np \in u.food
             food2 == IF eats THEN u.food \ {np} ELSE u.food
         IN [ok |-> TRUE,
             universe |-> [u EXCEPT !.pos[i] = np, !.food = food2],
             events |-> <<BotMoves(i)>>
                        \o (IF eats THEN <<BotEats(i)>> ELSE <<>>)
                        \o (IF eats /\ food2 = {}
                            THEN <<TeamWins(team_index(i))>> ELSE <<>>)]

\* datamodel.create_CTFUniverse(layout, number_bots)
create_CTFUniverse ==
    [pos |-> [i \in Bots |-> IF team_index(i) = 0 THEN 0 ELSE MazeLen - 1],
     food |-> {FoodCell},
     nostop |-> {}]

\* TypeAwareList.__contains__ with a class, and filter_type
ContainsType(events, type) == \E k \in 1 .. Len(events) : events[k].type = type
filter_type(events, type) == SelectSeq(events, LAMBDA e : e.type = type)

---------------------------------------------------------------------------
(* game_master.py *)

\* the names bound in the module's namespace (lines 5-20)
GlobalNames ==
    {"copy", "random", "TypeAwareList", "datamodel", "AbstractViewer",
     "PlayerTimeout", "PlayerDisconnected", "GameMaster"}

\* Matching a raised exception against the except clauses of play_round, in
\* order.  The first clause's expression (uni.IllegalMoveException,
\* PlayerTimeout) is evaluated first, whatever was raised; an unbound name in
\* it raises NameError in place of the exception being handled.
ExceptClause(exc) ==
    IF "uni" \notin GlobalNames THEN "NameError"
    ELSE IF exc \in {"IllegalMoveException", "PlayerTimeout"} THEN "fallback"
    ELSE IF exc = "PlayerDisconnected" THEN "disconnected"
    ELSE "propagate"

\* `not bot.team_index`: True (== 1) for 0, False (== 0) otherwise
PyNot(x) == IF x = 0 THEN 1 ELSE 0

\* fallback_moves with line 111 (moves.remove(datamodel.stop)) left out
fallback_moves_keepsStop(u, i) == DOMAIN get_legal_moves(u, u.pos[i])

\* lines 110-113: the list random.choice draws from; line 111 raises
\* ValueError when stop is not among the legal moves
legal_keys(u, i) == DOMAIN get_legal_moves(u, u.pos[i])
fallback_raises(u, i) == datamodel_stop \notin legal_keys(u, i)
fallback_moves(u, i) ==
    LET moves == legal_keys(u, i) \ {datamodel_stop} IN
    IF moves = {} THEN {datamodel_stop} ELSE moves

\* lines 116-117
fallback_events(u, i, m) ==
    Append(move_bot(u, i, m).events, TimeoutEvent(team_index(i)))

\* lines 119-122
disconnect_events(i) == <<TeamWins(PyNot(team_index(i)))>>

Viewers == {"v1", "v2"}
AbstractViewers == {"abstract"}     \* viewers that do not override observe()

\* universe.copy() and copy.deepcopy(events) returning the live object
\* itself in place of a fresh one
copy_alias(u) == [ref |-> "live", val |-> u]

\* universe.copy() (lines 64, 78, 107, 129) and copy.deepcopy(events)
\* (line 129): a fresh object with the value of the live one
copy(u) == [ref |-> "copy", val |-> u]
deepcopy(events) == copy(events)

NoRef == [ref |-> "none", val |-> <<>>]
NoHand == [to |-> "none", via |-> "none", board |-> NoRef, events |-> NoRef,
           dirty |-> FALSE]
Hand(to, via, board, events) ==
    [to |-> to, via |-> via, board |-> board, events |-> events, dirty |-> FALSE]

\* what a player or viewer may do to a board or an event list it holds
ScribbleBoard(u) ==
    [u EXCEPT !.pos = [i \in Bots |-> IF u.pos[i] = 0 THEN MazeLen - 1 ELSE 0],
              !.food = {}]
ScribbleEvents(events) == Append(events, [type |-> "Scribble", who |-> 0])

NoCall ==
    [op |-> "none", arg |-> "none", status |-> "idle", error |-> "none",
     ret |-> "none",
     gt |-> -1, i |-> 0, j |-> 0, events |-> <<>>, before |-> create_CTFUniverse]

Entry(k, outcome, slot, events) ==
    [k |-> k, gt |-> call.gt, bot |-> call.i, outcome |-> outcome,
     slot |-> slot, events |-> events]

\* __init__ (lines 40-45)
GameInit ==
    /\ universe = create_CTFUniverse
    /\ player_teams = <<>>
    /\ viewers = <<>>
    /\ pc = "idle"
    /\ call = NoCall
    /\ trace = <<>>
    /\ rounds = <<>>
    /\ ncalls = 0
    /\ handed = NoHand
    /\ finished = FALSE

FbIdle == [phase |-> "off", bot |-> 0, exc |-> "none", before |-> create_CTFUniverse,
           move |-> "none", events |-> <<>>, error |-> "none"]

\* register_team (lines 47-64): the team is appended before the board's team
\* is looked up, so one team too many stays registered when line 60 raises
register_team ==
    /\ pc = "idle"
    /\ Len(player_teams) <= NumTeams
    /\ player_teams' = Append(player_teams, Len(player_teams) + 1)
    /\ call' = [NoCall EXCEPT !.op = "register_team",
                              !.status = IF Len(player_teams) >= NumTeams
                                         THEN "raised" ELSE "returned",
                              !.error = IF Len(player_teams) >= NumTeams
                                        THEN "IndexError" ELSE "none"]
    /\ handed' = IF Len(player_teams) >= NumTeams THEN handed
                  ELSE Hand("team", "set_initial", copy(universe), NoRef)
    /\ UNCHANGED <<universe, viewers, pc, trace, rounds, ncalls, finished,
                   otherVars>>

\* register_viewer with the test of lines 72-76 made after lines 78-79
register_viewer_checksLast(v) ==
    /\ pc = "idle"
    /\ Len(viewers) < Cardinality(Viewers)
    /\ call' = IF v \in AbstractViewers
               THEN [NoCall EXCEPT !.op = "register_viewer", !.arg = v,
                                   !.status = "raised", !.error = "TypeError"]
               ELSE [NoCall EXCEPT !.op = "register_viewer", !.arg = v,
                                   !.status = "returned"]
    /\ handed' = Hand(v, "set_initial", copy(universe), NoRef)
    /\ viewers' = Append(viewers, v)
    /\ UNCHANGED <<universe, player_teams, pc, trace, rounds, ncalls, finished,
                   otherVars>>

\* register_viewer (lines 66-79)
register_viewer(v) ==
    /\ pc = "idle"
    /\ Len(viewers) < Cardinality(Viewers)
    /\ IF v \in AbstractViewers
       THEN /\ call' = [NoCall EXCEPT !.op = "register_viewer", !.arg = v,
                                      !.status = "raised", !.error = "TypeError"]
            /\ UNCHANGED <<viewers, handed>>
       ELSE /\ call' = [NoCall EXCEPT !.op = "register_viewer", !.arg = v,
                                      !.status = "returned"]
            /\ handed' = Hand(v, "set_initial", copy(universe), NoRef)
            /\ viewers' = Append(viewers, v)
    /\ UNCHANGED <<universe, player_teams, pc, trace, rounds, ncalls, finished,
                   otherVars>>

\* play with the check of line 85 as `<`: more teams than the board has pass
play_checksTooFew ==
    /\ pc = "idle"
    /\ ncalls < MaxCalls
    /\ ncalls' = ncalls + 1
    /\ trace' = <<>>
    /\ rounds' = <<>>
    /\ IF Len(player_teams) < NumTeams
       THEN /\ call' = [NoCall EXCEPT !.op = "play", !.status = "raised",
                                      !.error = "IndexError",
                                      !.before = universe]
            /\ pc' = "idle"
       ELSE /\ call' = [NoCall EXCEPT !.op = "play", !.status = "running",
                                      !.before = universe]
            /\ pc' = "loop"
    /\ UNCHANGED <<universe, player_teams, viewers, handed, finished, otherVars>>

\* play, lines 85-88: the team-count check
play ==
    /\ pc = "idle"
    /\ ncalls < MaxCalls
    /\ ncalls' = ncalls + 1
    /\ trace' = <<>>
    /\ rounds' = <<>>
    /\ IF Len(player_teams) # NumTeams
       THEN /\ call' = [NoCall EXCEPT !.op = "play", !.status = "raised",
                                      !.error = "IndexError",
                                      !.before = universe]
            /\ pc' = "idle"
       ELSE /\ call' = [NoCall EXCEPT !.op = "play", !.status = "running",
                                      !.before = universe]
            /\ pc' = "loop"
    /\ UNCHANGED <<universe, player_teams, viewers, handed, finished, otherVars>>

\* play_loop with the result of play_round ignored (line 90 without its test)
play_loop_ignoresResult ==
    /\ pc = "loop"
    /\ IF call.gt + 1 >= GameTime
       THEN /\ call' = [call EXCEPT !.status = "returned"]
            /\ pc' = "idle"
            /\ finished' = TRUE
            /\ UNCHANGED trace
       ELSE /\ call' = [call EXCEPT !.gt = call.gt + 1, !.i = 0, !.j = 0,
                                    !.ret = "none", !.events = <<>>]
            /\ pc' = "get_move"
            /\ UNCHANGED finished
            /\ trace' = <<>>
    /\ UNCHANGED <<universe, player_teams, viewers, rounds, ncalls, handed,
                   otherVars>>

\* play, lines 89-91: the next iteration of the loop over range(game_time)
play_loop ==
    /\ pc = "loop"
    /\ IF call.ret = "False" \/ call.gt + 1 >= GameTime
       THEN /\ call' = [call EXCEPT !.status = "returned"]
            /\ pc' = "idle"
            /\ finished' = TRUE
            /\ UNCHANGED trace
       ELSE /\ call' = [call EXCEPT !.gt = call.gt + 1, !.i = 0, !.j = 0,
                                    !.ret = "none", !.events = <<>>]
            /\ pc' = "get_move"
            /\ UNCHANGED finished
            /\ trace' = <<>>
    /\ UNCHANGED <<universe, player_teams, viewers, rounds, ncalls, handed,
                   otherVars>>

\* play_round called by the client itself (it is a public method)
play_round(gt) ==
    /\ pc = "idle"
    /\ ncalls < MaxCalls
    /\ ncalls' = ncalls + 1
    /\ trace' = <<>>
    /\ rounds' = <<>>
    /\ call' = [NoCall EXCEPT !.op = "play_round", !.status = "running",
                              !.gt = gt, !.before = universe]
    /\ pc' = "get_move"
    /\ UNCHANGED <<universe, player_teams, viewers, handed, finished, otherVars>>

\* play_round returns b
RoundReturns(b) ==
    /\ rounds' = Append(rounds, [gt |-> call.gt, ret |-> b])
    /\ call' = [call EXCEPT !.ret = b,
                            !.status = IF call.op = "play" THEN "running"
                                       ELSE "returned"]
    /\ pc' = IF call.op = "play" THEN "loop" ELSE "idle"

\* an exception leaves play_round (and play, which catches nothing)
Aborted(outcome, err) ==
    /\ trace' = Append(trace, Entry("ask", outcome, 0, <<>>))
    /\ rounds' = Append(rounds, [gt |-> call.gt, ret |-> "raised"])
    /\ call' = [call EXCEPT !.ret = "raised", !.status = "raised", !.error = err,
                            !.before = universe]
    /\ pc' = "idle"
    /\ UNCHANGED universe

\* the bot-move produced its events; the broadcast (line 128) comes next
Resolved(outcome, u2, ev) ==
    /\ universe' = u2
    /\ trace' = trace \o <<Entry("ask", outcome, 0, <<>>),
                           Entry("events", outcome, 0, ev)>>
    /\ call' = [call EXCEPT !.events = ev, !.j = 0, !.before = universe]
    /\ pc' = "observe"
    /\ UNCHANGED rounds

\* lines 109-122: what play_round does with exception exc raised in the try
Handle(exc) ==
    LET clause == ExceptClause(exc)
        i == call.i
    IN  CASE clause = "NameError" -> Aborted(exc, "NameError")
          [] clause = "fallback" ->
                IF fallback_raises(universe, i)
                THEN Aborted(exc, "ValueError")
                ELSE \E m \in fallback_moves(universe, i) :
                        Resolved(exc, move_bot(universe, i, m).universe,
                                 fallback_events(universe, i, m))
          [] clause = "disconnected" ->
                Resolved(exc, universe, disconnect_events(i))
          [] OTHER -> Aborted(exc, exc)

HasTeam == team_index(call.i) + 1 <= Len(player_teams)

\* line 105 with no team registered for the bot's team index
get_team_fails ==
    /\ pc = "get_move"
    /\ ~HasTeam
    /\ rounds' = Append(rounds, [gt |-> call.gt, ret |-> "raised"])
    /\ call' = [call EXCEPT !.ret = "raised", !.status = "raised",
                            !.error = "IndexError"]
    /\ pc' = "idle"
    /\ UNCHANGED <<universe, player_teams, viewers, trace, ncalls, handed,
                   finished, otherVars>>

\* lines 107-108: the player answers with move m
player_moves(m) ==
    /\ pc = "get_move"
    /\ HasTeam
    /\ LET r == move_bot(universe, call.i, m) IN
       IF r.ok THEN Resolved("ok", r.universe, r.events)
       ELSE Handle("IllegalMoveException")
    /\ handed' = Hand("team", "get_move", copy(universe), NoRef)
    /\ UNCHANGED <<player_teams, viewers, ncalls, finished, otherVars>>

\* line 107: _get_move raises PlayerTimeout
player_timeout ==
    /\ pc = "get_move"
    /\ HasTeam
    /\ Handle("PlayerTimeout")
    /\ handed' = Hand("team", "get_move", copy(universe), NoRef)
    /\ UNCHANGED <<player_teams, viewers, ncalls, finished, otherVars>>

\* line 107: _get_move raises PlayerDisconnected
player_disconnected ==
    /\ pc = "get_move"
    /\ HasTeam
    /\ Handle("PlayerDisconnected")
    /\ handed' = Hand("team", "get_move", copy(universe), NoRef)
    /\ UNCHANGED <<player_teams, viewers, ncalls, finished, otherVars>>

\* lines 128-129: the next viewer observes
observe ==
    /\ pc = "observe"
    /\ call.j < Len(viewers)
    /\ handed' = Hand(viewers[call.j + 1], "observe", copy(universe),
                      deepcopy(call.events))
    /\ trace' = Append(trace, Entry("obs", viewers[call.j + 1], call.j + 1,
                                    handed'.events.val))
    /\ call' = [call EXCEPT !.j = call.j + 1]
    /\ UNCHANGED <<universe, player_teams, viewers, pc, rounds, ncalls, finished,
                   otherVars>>

\* the player or viewer of the last hand-off changes the objects it was
\* given; an object shared with the game master changes there as well
receiver_mutates ==
    /\ handed.to # "none"
    /\ ~handed.dirty
    /\ handed' = [handed EXCEPT
            !.dirty = TRUE,
            !.board.val = ScribbleBoard(@),
            !.events.val = IF handed.events.ref = "none" THEN @
                           ELSE ScribbleEvents(@)]
    /\ universe' = IF handed.board.ref = "live" THEN ScribbleBoard(universe)
                    ELSE universe
    /\ call' = IF handed.events.ref = "live"
               THEN [call EXCEPT !.events = ScribbleEvents(@)] ELSE call
    /\ UNCHANGED <<player_teams, viewers, pc, trace, rounds, ncalls, finished,
                   otherVars>>

\* end_bot_move with line 130 testing for the wrong event class
end_bot_move_wrongClass ==
    /\ pc = "observe"
    /\ call.j = Len(viewers)
    /\ IF ContainsType(call.events, "TimeoutEvent")
       THEN RoundReturns("False")
       ELSE IF call.i + 1 < NumBots
       THEN /\ call' = [call EXCEPT !.i = call.i + 1, !.j = 0, !.events = <<>>]
            /\ pc' = "get_move"
            /\ UNCHANGED rounds
       ELSE RoundReturns("True")
    /\ UNCHANGED <<universe, player_teams, viewers, trace, ncalls, handed,
                   finished, otherVars>>

\* end_bot_move taken while viewers are still waiting for their observe call
end_bot_move_early ==
    /\ pc = "observe"
    /\ call.j <= Len(viewers)
    /\ IF ContainsType(call.events, "TeamWins")
       THEN RoundReturns("False")
       ELSE IF call.i + 1 < NumBots
       THEN /\ call' = [call EXCEPT !.i = call.i + 1, !.j = 0, !.events = <<>>]
            /\ pc' = "get_move"
            /\ UNCHANGED rounds
       ELSE RoundReturns("True")
    /\ UNCHANGED <<universe, player_teams, viewers, trace, ncalls, handed,
                   finished, otherVars>>

\* lines 130-131 and the next iteration of the loop of line 104
end_bot_move ==
    /\ pc = "observe"
    /\ call.j = Len(viewers)
    /\ IF ContainsType(call.events, "TeamWins")
       THEN RoundReturns("False")
       ELSE IF call.i + 1 < NumBots
       THEN /\ call' = [call EXCEPT !.i = call.i + 1, !.j = 0, !.events = <<>>]
            /\ pc' = "get_move"
            /\ UNCHANGED rounds
       ELSE RoundReturns("True")
    /\ UNCHANGED <<universe, player_teams, viewers, trace, ncalls, handed,
                   finished, otherVars>>

---------------------------------------------------------------------------
(* The body of the first except clause (lines 110-117), run for bot fb.bot *)
(* on the board of a layout.                                               *)

FbBoards ==
    [pos : [Bots -> Free], food : SUBSET {FoodCell}, nostop : SUBSET Free]
FbExceptions == {"IllegalMoveException", "PlayerTimeout"}

run_fallback ==
    /\ fb.phase = "ready"
    /\ IF fallback_raises(universe, fb.bot)
       THEN /\ fb' = [fb EXCEPT !.phase = "done", !.error = "ValueError"]
            /\ UNCHANGED universe
       ELSE \E m \in fallback_moves(universe, fb.bot) :
                /\ universe' = move_bot(universe, fb.bot, m).universe
                /\ fb' = [fb EXCEPT !.phase = "done", !.move = m,
                                    !.events = fallback_events(universe, fb.bot, m)]
    /\ UNCHANGED <<player_teams, viewers, pc, call, trace, rounds, ncalls,
                 handed, finished, msgVars>>

---------------------------------------------------------------------------
(* messages.py *)

None == "None"
Methods == {"move"}
ParamValues == {"[]", "[3]"}
Ids == {"q-7", "q-8"}
ResultValues == {"north"}
ErrorValues == {"failed"}
MaxReplies == 2     \* replies put on the channel per behaviour

\* line 148
defined_messages == <<"Query", "Notification", "Response", "Error">>

\* the parameters of each class's __init__ (lines 63, 95, 112, 129)
InitArgs(cls) ==
    CASE cls = "Query" -> {"method", "params", "id"}
      [] cls = "Notification" -> {"method", "params"}
      [] cls = "Response" -> {"result", "id"}
      [] cls = "Error" -> {"error", "id"}

\* New with unexpected keywords ignored instead of refused
New_ignoresExtra(cls, d) ==
    IF ~(InitArgs(cls) \subseteq DOMAIN d) THEN [cls |-> "TypeError"]
    ELSE CASE cls = "Query" ->
                [cls |-> cls, method |-> d.method, params |-> d.params,
                 id |-> d.id, channel |-> None]
           [] cls = "Notification" ->
                [cls |-> cls, method |-> d.method, params |-> d.params]
           [] cls = "Response" ->
                [cls |-> cls, result |-> d.result, id |-> d.id]
           [] cls = "Error" ->
                [cls |-> cls, error |-> d.error, id |-> d.id]

\* New with Query.__init__ declared as (method, params, id=None)
New_queryIdOptional(cls, d) ==
    IF cls = "Query" /\ DOMAIN d = {"method", "params"}
    THEN [cls |-> cls, method |-> d.method, params |-> d.params,
          id |-> None, channel |-> None]
    ELSE IF DOMAIN d # InitArgs(cls) THEN [cls |-> "TypeError"]
    ELSE CASE cls = "Query" ->
                [cls |-> cls, method |-> d.method, params |-> d.params,
                 id |-> d.id, channel |-> None]
           [] cls = "Notification" ->
                [cls |-> cls, method |-> d.method, params |-> d.params]
           [] cls = "Response" ->
                [cls |-> cls, result |-> d.result, id |-> d.id]
           [] cls = "Error" ->
                [cls |-> cls, error |-> d.error, id |-> d.id]

\* cls(**d): the attributes __init__ sets; None when the keywords do not fit
\* (TypeError)
New(cls, d) ==
    IF DOMAIN d # InitArgs(cls) THEN [cls |-> "TypeError"]
    ELSE CASE cls = "Query" ->
                [cls |-> cls, method |-> d.method, params |-> d.params,
                 id |-> d.id, channel |-> None]
           [] cls = "Notification" ->
                [cls |-> cls, method |-> d.method, params |-> d.params]
           [] cls = "Response" ->
                [cls |-> cls, result |-> d.result, id |-> d.id]
           [] cls = "Error" ->
                [cls |-> cls, error |-> d.error, id |-> d.id]

\* dict with Query.dict leaving out the id
dict_queryWithoutId(m) ==
    CASE m.cls = "Query" -> [method |-> m.method, params |-> m.params]
      [] m.cls = "Notification" -> [method |-> m.method, params |-> m.params]
      [] m.cls = "Response" -> [result |-> m.result, id |-> m.id]
      [] m.cls = "Error" -> [error |-> m.error, id |-> m.id]

\* the dict property of each class (lines 92, 109, 126, 145)
dict(m) ==
    CASE m.cls = "Query" -> [method |-> m.method, params |-> m.params, id |-> m.id]
      [] m.cls = "Notification" -> [method |-> m.method, params |-> m.params]
      [] m.cls = "Response" -> [result |-> m.result, id |-> m.id]
      [] m.cls = "Error" -> [error |-> m.error, id |-> m.id]

\* _load_message (lines 150-156), trying defined_messages from index k on
RECURSIVE load_from(_, _)
load_from(d, k) ==
    IF k > Len(defined_messages) THEN [cls |-> "ValueError", arg |-> d]
    ELSE LET m == New(defined_messages[k], d) IN
         IF m.cls = "TypeError" THEN load_from(d, k + 1) ELSE m

load_message(d) == load_from(d, 1)

\* is_response with Error.is_response always True
is_response_errorAlways(m) == m.cls \in {"Response", "Error"}

\* the is_response property of each class (lines 70-72, 99-101, 116-118,
\* 133-137)
is_response(m) ==
    CASE m.cls = "Query" -> FALSE
      [] m.cls = "Notification" -> FALSE
      [] m.cls = "Response" -> TRUE
      [] m.cls = "Error" -> m.id # None

\* the wants_response property of each class (lines 74-76, 103-105, 120-122,
\* 139-141)
wants_response(m) ==
    CASE m.cls = "Query" -> TRUE
      [] m.cls = "Notification" -> FALSE
      [] m.cls = "Response" -> FALSE
      [] m.cls = "Error" -> FALSE

\* response with the id of the query left out
response_noId(q, result) == New("Response", [result |-> result, id |-> None])

\* Query.response and Query.error_msg (lines 78-79, 84-85)
response(q, result) == New("Response", [result |-> result, id |-> q.id])
error_msg(q, error) == New("Error", [error |-> error, id |-> q.id])

Constructible ==
    {New("Query", [method |-> me, params |-> pa, id |-> id]) :
        me \in Methods, pa \in ParamValues, id \in Ids \cup {None}}
    \cup {New("Notification", [method |-> me, params |-> pa]) :
        me \in Methods, pa \in ParamValues}
    \cup {New("Response", [result |-> re, id |-> id]) :
        re \in ResultValues, id \in Ids \cup {None}}
    \cup {New("Error", [error |-> er, id |-> id]) :
        er \in ErrorValues, id \in Ids \cup {None}}

\* the dicts handed to BaseMessage.load by a transport: any set of the field
\* names below and of one unknown name, with values of the fields' kinds
FieldNames == {"method", "params", "id", "result", "error", "extra"}
FieldValues(f) ==
    CASE f = "method" -> Methods
      [] f = "params" -> ParamValues
      [] f = "id" -> {"q-7", None}
      [] f = "result" -> ResultValues
      [] f = "error" -> ErrorValues
      [] f = "extra" -> {"x"}
WireForms ==
    UNION {{d \in [F -> UNION {FieldValues(f) : f \in F}] :
                \A f \in F : d[f] \in FieldValues(f)} : F \in SUBSET FieldNames}

NoMsg == [cls |-> "none"]
NoWire == [none |-> None]
NoMCall == [op |-> "none", arg |-> None, error |-> "none", len |-> 0]

MsgIdle ==
    /\ msg = NoMsg
    /\ msgpc = "empty"
    /\ wire = NoWire
    /\ loaded = NoMsg
    /\ chan = <<>>
    /\ mcall = NoMCall

\* a constructor call
construct(m) ==
    /\ msgpc = "empty"
    /\ msg' = m
    /\ msgpc' = "constructed"
    /\ UNCHANGED <<wire, loaded, chan, mcall, gameVars, fb>>

\* the transport sets query.channel when it receives the query (line 68 leaves
\* it None)
bind_channel ==
    /\ msg.cls = "Query"
    /\ msg.channel = None
    /\ msg' = [msg EXCEPT !.channel = "channel"]
    /\ UNCHANGED <<msgpc, wire, loaded, chan, mcall, gameVars, fb>>

\* msg.dict
to_dict ==
    /\ msgpc = "constructed"
    /\ wire' = dict(msg)
    /\ msgpc' = "encoded"
    /\ UNCHANGED <<msg, loaded, chan, mcall, gameVars, fb>>

\* a dict arrives from the transport
receive(d) ==
    /\ msgpc = "empty"
    /\ wire' = d
    /\ msgpc' = "received"
    /\ UNCHANGED <<msg, loaded, chan, mcall, gameVars, fb>>

\* BaseMessage.load(wire)
load ==
    /\ msgpc \in {"encoded", "received"}
    /\ loaded' = load_message(wire)
    /\ msgpc' = IF msgpc = "encoded" THEN "loaded" ELSE "decoded"
    /\ UNCHANGED <<msg, wire, chan, mcall, gameVars, fb>>

\* Query.reply (lines 81-82); self.channel.put is looked up before the
\* Response is made, so nothing is made when the channel is None
reply(result) ==
    /\ msg.cls = "Query"
    /\ Len(chan) < MaxReplies
    /\ IF msg.channel = None
       THEN /\ mcall' = [op |-> "reply", arg |-> result,
                         error |-> "AttributeError", len |-> Len(chan)]
            /\ UNCHANGED chan
       ELSE /\ mcall' = [op |-> "reply", arg |-> result, error |-> "none",
                         len |-> Len(chan)]
            /\ chan' = Append(chan, response(msg, result))
    /\ UNCHANGED <<msg, msgpc, wire, loaded, gameVars, fb>>

\* Query.reply_error (lines 87-88)
reply_error(error) ==
    /\ msg.cls = "Query"
    /\ Len(chan) < MaxReplies
    /\ IF msg.channel = None
       THEN /\ mcall' = [op |-> "reply_error", arg |-> error,
                         error |-> "AttributeError", len |-> Len(chan)]
            /\ UNCHANGED chan
       ELSE /\ mcall' = [op |-> "reply_error", arg |-> error, error |-> "none",
                         len |-> Len(chan)]
            /\ chan' = Append(chan, error_msg(msg, error))
    /\ UNCHANGED <<msg, msgpc, wire, loaded, gameVars, fb>>

---------------------------------------------------------------------------
(* Specifications *)

Init == GameInit /\ fb = FbIdle /\ MsgIdle

Next ==
    \/ register_team
    \/ \E v \in Viewers \cup AbstractViewers : register_viewer(v)
    \/ play
    \/ play_loop
    \/ \E gt \in 0 .. (GameTime - 1) : play_round(gt)
    \/ get_team_fails
    \/ \E m \in Moves : player_moves(m)
    \/ player_timeout
    \/ player_disconnected
    \/ observe
    \/ receiver_mutates
    \/ end_bot_move

Spec == Init /\ [][Next]_vars

FallbackInit ==
    /\ universe \in FbBoards
    /\ player_teams = <<>>
    /\ viewers = <<>>
    /\ pc = "idle"
    /\ call = NoCall
    /\ trace = <<>>
    /\ rounds = <<>>
    /\ ncalls = 0
    /\ handed = NoHand
    /\ finished = FALSE
    /\ \E b \in Bots, e \in FbExceptions :
          fb = [FbIdle EXCEPT !.phase = "ready", !.bot = b, !.exc = e,
                              !.before = universe]
    /\ MsgIdle

FallbackNext == run_fallback

FallbackSpec == FallbackInit /\ [][FallbackNext]_vars

MsgInit == GameInit /\ fb = FbIdle /\ MsgIdle

MsgNext ==
    \/ \E m \in Constructible : construct(m)
    \/ bind_channel
    \/ to_dict
    \/ \E d \in WireForms : receive(d)
    \/ load
    \/ \E r \in ResultValues : reply(r)
    \/ \E e \in ErrorValues : reply_error(e)

MsgSpec == MsgInit /\ [][MsgNext]_vars

---------------------------------------------------------------------------
(* Properties *)

InCall == call.op \in {"play", "play_round"}
HasTeamWins(events) == \E n \in 1 .. Len(events) : events[n].type = "TeamWins"
Produced(k) == trace[k].k = "events"
Asked(k, outcomes) == trace[k].k = "ask" /\ trace[k].outcome \in outcomes
TeamWinsProduced ==
    \E k \in 1 .. Len(trace) : Produced(k) /\ HasTeamWins(trace[k].events)
AllBotsMoved ==
    \A b \in Bots : \E k \in 1 .. Len(trace) : Produced(k) /\ trace[k].bot = b
\* the entries after the events entry k are its broadcast, viewer by viewer
BroadcastOf(k, n) ==
    /\ trace[n].k = "obs"
    /\ trace[n].bot = trace[k].bot
    /\ trace[n].gt = trace[k].gt
    /\ trace[n].events = trace[k].events
    /\ trace[n].slot = n - k
    /\ trace[n].slot <= Len(viewers)
    /\ trace[n].outcome = viewers[n - k]

\* C1: once a play_round invocation is over, it returned False iff some
\* bot-move of the round produced a TeamWins event, and it returned True iff
\* every bot of the round moved and no event list holds a TeamWins event.
C1_ReturnsFalseIffTeamWins ==
    (InCall /\ call.ret # "none") =>
        /\ (call.ret = "False") <=> TeamWinsProduced
        /\ (call.ret = "True") <=> (AllBotsMoved /\ ~TeamWinsProduced)

C1_Witness ==
    /\ call.op = "play"
    /\ pc = "loop"
    /\ call.ret = "False"
    /\ TeamWinsProduced
    /\ ~AllBotsMoved

\* C2: once a bot-move of a round produced a TeamWins event, that bot-move is
\* broadcast to every viewer, nothing else follows it in the round (no bot
\* with a higher index is asked or broadcast), and the round that returned
\* False is the last one play() starts.
C2_TeamWinsEndsMatch ==
    InCall =>
        /\ \A k \in 1 .. Len(trace) :
              (Produced(k) /\ HasTeamWins(trace[k].events)) =>
                  /\ \A n \in 1 .. Len(trace) : trace[n].bot <= trace[k].bot
                  /\ \A n \in (k + 1) .. Len(trace) : BroadcastOf(k, n)
                  /\ (pc # "observe") => (Len(trace) = k + Len(viewers))
                  /\ (pc # "observe") => (call.ret = "False")
        /\ \A n \in 1 .. Len(rounds) :
              (rounds[n].ret = "False") =>
                  /\ n = Len(rounds)
                  /\ pc \in {"loop", "idle"}
                  /\ call.ret = "False"

C2_Witness ==
    /\ call.op = "play"
    /\ call.status = "returned"
    /\ Len(viewers) = 2
    /\ Len(rounds) = 1
    /\ Len(rounds) < GameTime
    /\ TeamWinsProduced
    /\ ~AllBotsMoved
    /\ Len(trace) = 4

\* C3: a move request of a bot of team T that ends with PlayerDisconnected
\* leaves the board as it was and yields the event list <<TeamWins(other
\* team)>>, which is what the viewers are given.
C3_DisconnectedYieldsOnlyTeamWins ==
    InCall =>
        \A k \in 1 .. Len(trace) :
            Asked(k, {"PlayerDisconnected"}) =>
                /\ universe = call.before
                /\ k < Len(trace)
                /\ Produced(k + 1)
                /\ trace[k + 1].events
                     = <<TeamWins(1 - team_index(trace[k].bot))>>
                /\ \A n \in (k + 2) .. Len(trace) : BroadcastOf(k + 1, n)
                /\ (call.ret # "none") => (Len(trace) = k + 1 + Len(viewers))

\* C4: with as many teams registered as the board has, play() never ends
\* with an exception, whatever the players do.
C4_PlayNeverRaises ==
    (call.op = "play" /\ Len(player_teams) = NumTeams) =>
        (call.status # "raised" /\ call.error = "none")

\* C5: when the fallback runs for a bot that has a legal move other than
\* stop, the move it applies is not stop (the bot leaves its cell).
C5_FallbackAvoidsStop ==
    (/\ fb.phase = "done"
     /\ legal_keys(fb.before, fb.bot) \ {datamodel_stop} # {}
     /\ fb.move # "none") =>
        /\ fb.move # datamodel_stop
        /\ universe.pos[fb.bot] # fb.before.pos[fb.bot]

C5_Witness ==
    /\ fb.phase = "done"
    /\ {"east", "west", datamodel_stop} \subseteq legal_keys(fb.before, fb.bot)
    /\ fb.move = "west"

\* C6: a move request that times out or proposes an illegal move is followed
\* by one fallback move applied to the board and an event list that ends
\* with the one TimeoutEvent of the bot's team.
C6_FaultAppliesOneFallback ==
    InCall =>
        \A k \in 1 .. Len(trace) :
            Asked(k, {"PlayerTimeout", "IllegalMoveException"}) =>
                /\ k < Len(trace)
                /\ Produced(k + 1)
                /\ LET ev == trace[k + 1].events IN
                      /\ Len(filter_type(ev, "TimeoutEvent")) = 1
                      /\ ev[Len(ev)] = TimeoutEvent(team_index(trace[k].bot))
                      /\ Len(filter_type(ev, "BotMoves")) = 1

\* C7: play() called with a number of registered teams other than the
\* board's ends with IndexError at once: no player was asked, no viewer
\* called, no round started, the board is as it was.
C7_TeamMismatchFailsFast ==
    (call.op = "play" /\ Len(player_teams) # NumTeams) =>
        /\ call.status = "raised"
        /\ call.error = "IndexError"
        /\ pc = "idle"
        /\ trace = <<>>
        /\ rounds = <<>>
        /\ universe = call.before

C7_Witness ==
    /\ call.op = "play"
    /\ Len(player_teams) > NumTeams
    /\ Len(viewers) > 0
    /\ call.status = "raised"

\* the bot-move before entry k is complete: its events went to every viewer
BlockComplete(k) ==
    IF Len(viewers) = 0 THEN trace[k].k = "events"
    ELSE trace[k].k = "obs" /\ trace[k].slot = Len(viewers)

\* C8 (amended): within a round the bots are asked in ascending index order
\* starting at 0; the events of each bot-move go, once per entry of the
\* viewers list and in the order of that list, with the round's index and
\* the bot's index, to the viewers before the next bot is asked and before
\* the round returns.
C8_OneBroadcastPerRegistration ==
    InCall =>
        /\ \A k \in 1 .. Len(trace) :
              /\ trace[k].gt = call.gt
              /\ (trace[k].k = "ask") =>
                    IF k = 1 THEN trace[k].bot = 0
                    ELSE /\ BlockComplete(k - 1)
                         /\ trace[k].bot = trace[k - 1].bot + 1
              /\ (trace[k].k = "events") =>
                    /\ k > 1
                    /\ trace[k - 1].k = "ask"
                    /\ trace[k - 1].bot = trace[k].bot
              /\ (trace[k].k = "obs") =>
                    \E e \in 1 .. (k - 1) : Produced(e) /\ BroadcastOf(e, k)
        /\ (call.ret \in {"True", "False"} /\ Len(trace) > 0) =>
              BlockComplete(Len(trace))

C8_Witness ==
    /\ InCall
    /\ call.ret = "True"
    /\ Len(viewers) = 2
    /\ viewers[1] # viewers[2]
    /\ Len(trace) = NumBots * 4

\* C8 as stated: moreover no viewer is called twice for one bot-move.
C8_OneBroadcastPerObserver ==
    /\ C8_OneBroadcastPerRegistration
    /\ InCall =>
          \A v \in Viewers, b \in Bots :
              Cardinality({k \in 1 .. Len(trace) :
                              /\ trace[k].k = "obs"
                              /\ trace[k].outcome = v
                              /\ trace[k].bot = b}) <= 1

\* C9: loading the dict of a constructed message gives a message of the same
\* class with the same value in every field of that class.
C9_RoundTrip ==
    (msgpc = "loaded") =>
        /\ loaded.cls = msg.cls
        /\ \A f \in InitArgs(msg.cls) : loaded[f] = msg[f]

C9_Witness ==
    /\ msgpc = "loaded"
    /\ msg.cls = "Error"
    /\ msg.id = None
    /\ loaded = msg

\* C10: at most one Response or Error carrying the id of the Query is ever
\* put on its channel.
C10_AtMostOneReply ==
    (msg.cls = "Query") =>
        Cardinality({k \in 1 .. Len(chan) : chan[k].id = msg.id}) <= 1

\* C11: a reply(r) call that finds a channel puts exactly one message on it,
\* the Response with result r and the query's id; reply_error(e) likewise
\* puts the Error with error e and the query's id.
C11_ReplyPutsOneMessage ==
    (mcall.op \in {"reply", "reply_error"} /\ mcall.error = "none") =>
        /\ msg.channel # None
        /\ Len(chan) = mcall.len + 1
        /\ chan[Len(chan)] =
              IF mcall.op = "reply"
              THEN [cls |-> "Response", result |-> mcall.arg, id |-> msg.id]
              ELSE [cls |-> "Error", error |-> mcall.arg, id |-> msg.id]

C11_Witness ==
    /\ mcall.op = "reply_error"
    /\ mcall.error = "none"
    /\ msg.id = "q-7"
    /\ Len(chan) = 2
    /\ chan[1].cls = "Response"
    /\ chan[2].cls = "Error"

\* C12: is_response is false for Query and Notification, true for Response,
\* and true for Error exactly when its id is not None; wants_response is
\* true for Query only; no message has both.
C12_ResponseFlags ==
    \A m \in {msg, loaded} \cup {chan[k] : k \in 1 .. Len(chan)} :
        (m.cls \in {"Query", "Notification", "Response", "Error"}) =>
            /\ is_response(m) <=>
                  (m.cls = "Response" \/ (m.cls = "Error" /\ m.id # None))
            /\ wants_response(m) <=> (m.cls = "Query")
            /\ ~(is_response(m) /\ wants_response(m))

C12_Witness ==
    /\ msg.cls = "Error"
    /\ msg.id = None
    /\ ~is_response(msg)
    /\ ~wants_response(msg)

\* the field sets of the four variants
VariantFields ==
    {{"method", "params", "id"}, {"method", "params"}, {"result", "id"},
     {"error", "id"}}

\* C13: loading a dict whose key set is not the field set of a variant ends
\* with ValueError carrying that dict, never with a message.
C13_UnrecognizedIsRefused ==
    (msgpc = "decoded" /\ DOMAIN wire \notin VariantFields) =>
        /\ loaded.cls = "ValueError"
        /\ loaded.arg = wire

C13_Witness ==
    /\ msgpc = "decoded"
    /\ DOMAIN wire = {"method", "params", "id", "extra"}
    /\ loaded.cls = "ValueError"

\* _load_message with the classes tried in the order given
RECURSIVE load_in_order(_, _, _)
load_in_order(d, order, k) ==
    IF k > Len(defined_messages) THEN [cls |-> "ValueError", arg |-> d]
    ELSE LET m == New(defined_messages[order[k]], d) IN
         IF m.cls = "TypeError" THEN load_in_order(d, order, k + 1) ELSE m

\* C18: at most one of the four constructors accepts a dict, so every order
\* of trying them gives what _load_message gives.
C18_DecodingUnambiguous ==
    (msgpc \in {"decoded", "loaded"}) =>
        /\ Cardinality({k \in 1 .. Len(defined_messages) :
                            New(defined_messages[k], wire).cls # "TypeError"}) <= 1
        /\ \A order \in Permutations(1 .. Len(defined_messages)) :
              load_in_order(wire, order, 1) = loaded

C18_Witness ==
    /\ msgpc = "decoded"
    /\ DOMAIN wire = {"method", "params"}
    /\ loaded.cls = "Notification"

---------------------------------------------------------------------------
(* C14 *)

\* C14: a viewer that does not override observe() is refused by
\* register_viewer with an error; it is never put on the viewers list, its
\* set_initial is never called, and no observe() call is ever made on it
C14_AbstractViewerRejected ==
    /\ (call.op = "register_viewer" /\ call.arg \in AbstractViewers)
          => (call.status = "raised" /\ call.error = "TypeError")
    /\ \A n \in 1 .. Len(viewers) : viewers[n] \notin AbstractViewers
    /\ handed.to \notin AbstractViewers
    /\ \A n \in 1 .. Len(trace) :
          trace[n].k = "obs" => trace[n].outcome \notin AbstractViewers

\* an abstract viewer has just been refused while another viewer is
\* registered: the last set_initial call is still that other viewer's
C14_Witness ==
    /\ call.op = "register_viewer"
    /\ call.arg \in AbstractViewers
    /\ call.status = "raised"
    /\ Len(viewers) = 1
    /\ handed.to = viewers[1]
    /\ handed.via = "set_initial"

---------------------------------------------------------------------------
(* C16 *)

AsksMade == Cardinality({k \in 1 .. Len(trace) : trace[k].k = "ask"})

\* C16: play() passes the round indices 0, 1, ... to play_round, all below
\* game_time; a round resolves at most number_bots bot-moves; and when
\* play() has ended it has run all game_time rounds to their end if and
\* only if no TeamWins event was produced
C16_AllRoundsUnlessTeamWins ==
    (call.op = "play" /\ Len(player_teams) = NumTeams) =>
        /\ Len(rounds) <= GameTime
        /\ \A n \in 1 .. Len(rounds) : rounds[n].gt = n - 1
        /\ AsksMade <= NumBots
        /\ pc = "idle" =>
              ((/\ Len(rounds) = GameTime
                /\ \A n \in 1 .. Len(rounds) : rounds[n].ret = "True")
               <=> ~TeamWinsProduced)

---------------------------------------------------------------------------
(* C19 *)

\* the outcome of the last move request made in the current round
LastAsk ==
    LET asks == SelectSeq(trace, LAMBDA e : e.k = "ask")
    IN  IF asks = <<>> THEN "none" ELSE asks[Len(asks)].outcome

\* C19: a bot-move whose request ended with a move, a timeout or an illegal
\* move has applied exactly one move to the board, to the bot being
\* resolved: its events hold one BotMoves event, of that bot, and the board
\* is the one move_bot makes of the board before the bot-move
C19_OneMovePerBotMove ==
    InCall =>
        /\ \A k \in 1 .. Len(trace) :
              Asked(k, {"ok", "PlayerTimeout", "IllegalMoveException"}) =>
                 /\ k < Len(trace)
                 /\ Produced(k + 1)
                 /\ LET moved == filter_type(trace[k + 1].events, "BotMoves")
                    IN  moved = <<BotMoves(trace[k].bot)>>
        /\ (/\ \/ pc = "observe"
               \/ call.status = "raised" /\ trace # <<>>
                                         /\ trace[Len(trace)].k = "ask"
            /\ LastAsk \in {"ok", "PlayerTimeout", "IllegalMoveException"}) =>
              \E m \in Moves :
                 /\ move_bot(call.before, call.i, m).ok
                 /\ universe = move_bot(call.before, call.i, m).universe

---------------------------------------------------------------------------
(* C15 *)

\* a step that resolves a bot-move, changes the board or calls a viewer
Resolves ==
    \/ Len(trace') > Len(trace)
    \/ universe' # universe

\* C15 as stated: a bot-move is resolved, the board changed and viewers
\* called only by a play() whose team-count check held, and never once a
\* play() has finished
C15_FinishedIsTerminal ==
    [][Resolves => (/\ ~finished
                    /\ call.op = "play"
                    /\ Len(player_teams) = NumTeams)]_vars

\* C15: a bot-move is resolved, the board changed and viewers called only
\* inside a running call of play() or play_round(), and inside play() only
\* when the number of registered teams is the board's
C15_ResolvesOnlyInsideACall ==
    [][Resolves => (/\ pc \in {"get_move", "observe"}
                    /\ call.status = "running"
                    /\ call.op \in {"play", "play_round"}
                    /\ call.op = "play" => Len(player_teams) = NumTeams)]_vars

\* a second play(), made after the first one returned, has resolved a move
C15_Witness ==
    /\ finished
    /\ call.op = "play"
    /\ ncalls = MaxCalls
    /\ Len(player_teams) = NumTeams
    /\ pc = "observe"
    /\ \E k \in 1 .. Len(trace) : Asked(k, {"ok"})

---------------------------------------------------------------------------
(* C17 *)

\* every observe call so far carried the events its bot-move produced
DeliveredAsProduced ==
    \A n \in 1 .. Len(trace) :
        trace[n].k = "obs" =>
            \E e \in 1 .. (n - 1) :
                /\ Produced(e)
                /\ trace[e].bot = trace[n].bot
                /\ trace[e].events = trace[n].events

---------------------------------------------------------------------------
(* C20 *)

====
